---- MODULE Spec2Model ----
(***************************************************************************)
(* Regression-tree induction of CRTree (src/src/CRTree.cpp): the           *)
(* constructor, growTree, the recursion of grow, the split search of       *)
(* optimizeTest with generateTest / evaluateTest / split /                 *)
(* measureInformationGain, and makeLeaf.                                   *)
(*                                                                         *)
(* The recursion of grow is an explicit stack of frames; optimizeTest runs *)
(* for the top frame only, one loop iteration per step.  Random draws      *)
(* (cv::theRNG().uniform) are inputs chosen with \E.  The log-determinant  *)
(* part of the information gain is real arithmetic on the labels and is an *)
(* input too (a rank in Scores); the weights are computed as the code      *)
(* computes them.  A TrainingSet produced by split is kept as the sequence *)
(* of IntIndex.index values it was filled from; the patches are read back  *)
(* through the parent working set (Patches).                               *)
(***************************************************************************)
EXTENDS Integers, Sequences, FiniteSets, TLC

\* ------------------------------------------------------------------ bounds
MaxPatches == 2
MaxPixel == 1
MaxDepthCfg == 1
MaxMinSamples == 1
MaxScore == 0
MaxRecursion == 1
MaxSetLen == 4

\* ------------------------------------------------- values taken from the code
\* patch dimensions read from data[0]
Width == 2
Height == 1
\* threshold trials per candidate test
N_THRESHOLD_IT == 2
\* initial value of bestSplit, below every finite score
NegDblMax == -1
\* a NaN or -infinity score: "score > bestSplit" is false for it
NotComparable == -2
\* the value of an int that is never assigned (tmpTest[4]): unknown
Indeterminate == "indeterminate"

VARIABLES minSamples, maxDepth, numNodes, treetable, numLeaves, writes,
          status, stack, pc, i, j, tmpTest, valSet, tmpA, tmpB, bestSplit,
          ret, tr, Wl, Wr

cfgVars == <<minSamples, maxDepth, numNodes>>
tableVars == <<treetable, numLeaves, writes>>
optVars == <<pc, i, j, tmpTest, valSet, tmpA, tmpB, bestSplit, ret, tr, Wl, Wr>>
vars == <<minSamples, maxDepth, numNodes, treetable, numLeaves, writes,
          status, stack, pc, i, j, tmpTest, valSet, tmpA, tmpB, bestSplit,
          ret, tr, Wl, Wr>>

\* ------------------------------------------------------------------ data
Pixels == (0 .. Height - 1) \X (0 .. Width - 1)

\* the code reads a patch only through differences of two of its intensities, so
\* the patches whose darkest pixel is 0 stand for all of them
ImagePatch == {p \in [Pixels -> 0 .. MaxPixel] : \E px \in Pixels : p[px] = 0}

RECURSIVE SeqsUpTo(_, _)
SeqsUpTo(S, n) ==
    IF n = 0 THEN {<<>>}
    ELSE LET shorter == SeqsUpTo(S, n - 1)
         IN  shorter \cup {Append(s, x) : s \in {t \in shorter : Len(t) = n - 1}, x \in S}

TrainingSets == SeqsUpTo(ImagePatch, MaxPatches) \ {<<>>}

RECURSIVE Pow2(_)
Pow2(n) == IF n <= 0 THEN 1 ELSE 2 * Pow2(n - 1)

NumNodes(depth) == Pow2(depth + 1) - 1

ZeroRow == <<0, 0, 0, 0, 0, 0, 0>>

InTable(node) == node >= 0 /\ node < numNodes

Top == stack[Len(stack)]

Frame(data, node, depth, samples) ==
    [data |-> data, node |-> node, depth |-> depth, samples |-> samples,
     pc |-> "entry", partA |-> <<>>, partB |-> <<>>, test |-> <<>>]

\* the patches a partition holds: data[(*it).index] for each pushed index
Patches(data, part) == [k \in 1 .. Len(part) |-> data[part[k] + 1]]

OptIdle ==
    /\ pc = "idle" /\ i = 0 /\ j = 0 /\ tmpTest = <<>> /\ valSet = <<>>
    /\ tmpA = <<>> /\ tmpB = <<>> /\ bestSplit = NegDblMax /\ ret = FALSE
    /\ tr = 0 /\ Wl = 0 /\ Wr = 0

Init ==
    /\ minSamples \in 0 .. MaxMinSamples
    /\ maxDepth \in 0 .. MaxDepthCfg
    /\ numNodes = NumNodes(maxDepth)
    /\ treetable = [n \in 0 .. NumNodes(maxDepth) - 1 |-> ZeroRow]
    /\ numLeaves = 0
    /\ writes = {}
    /\ status = "constructed"
    /\ stack = <<>>
    /\ OptIdle

\* ------------------------------------------------------- generateTest
\* four coordinates drawn from [0,width) and [0,height); test[4] is never
\* assigned and test[5] is overwritten with the threshold before it is read
TestDraws ==
    {<<x1, y1, x2, y2, r, 0>> :
        x1 \in 0 .. Width - 1, y1 \in 0 .. Height - 1,
        x2 \in 0 .. Width - 1, y2 \in 0 .. Height - 1, r \in {Indeterminate}}

\* ------------------------------------------------------- evaluateTest
\* m1 - m2 with m1 = at(test[1], test[0]) and m2 = at(test[3], test[2])
Difference(patch, t) == patch[<<t[2], t[1]>>] - patch[<<t[4], t[3]>>]

IntIndex(d, idx) == [difference |-> d, index |-> idx]

\* std::sort on difference, as an insertion sort that keeps equal keys in order
RECURSIVE InsertSorted(_, _)
InsertSorted(s, e) ==
    IF s = <<>> THEN <<e>>
    ELSE IF s[Len(s)].difference <= e.difference THEN Append(s, e)
    ELSE Append(InsertSorted(SubSeq(s, 1, Len(s) - 1), e), s[Len(s)])

RECURSIVE SortByDifference(_)
SortByDifference(s) ==
    IF s = <<>> THEN <<>>
    ELSE InsertSorted(SortByDifference(SubSeq(s, 1, Len(s) - 1)), s[Len(s)])

\* pushes one IntIndex per patch onto the valSet it is handed, then sorts it all
evaluateTest(data, t, vs) ==
    SortByDifference(vs \o [k \in 1 .. Len(data) |-> IntIndex(Difference(data[k], t), k - 1)])

\* ------------------------------------------------------- split
\* the lambda handed to std::upper_bound
Comp(threshold, a) == a.difference < threshold

\* std::upper_bound's binary search; first is a 0-based position
RECURSIVE UpperBound(_, _, _, _)
UpperBound(vs, value, first, len) ==
    IF len <= 0 THEN first
    ELSE LET half == len \div 2
             middle == first + half
         IN  IF Comp(value, vs[middle + 1])
             THEN UpperBound(vs, value, first, half)
             ELSE UpperBound(vs, value, middle + 1, len - half - 1)

\* std::upper_bound's precondition: the elements for which comp(value, e) is
\* false all precede those for which it is true
IsPartitioned(vs, value) ==
    \E k \in 0 .. Len(vs) :
        /\ \A m \in 1 .. k : ~Comp(value, vs[m])
        /\ \A m \in k + 1 .. Len(vs) : Comp(value, vs[m])

\* the cut position: the search result when the precondition holds, any position
\* of the range when it does not (undefined behaviour)
Cutoffs(vs, value) ==
    IF IsPartitioned(vs, value) THEN {UpperBound(vs, value, 0, Len(vs))}
    ELSE 0 .. Len(vs)

IndexRun(vs, from, to) == [k \in 1 .. (to - from + 1) |-> vs[from + k - 1].index]

\* [begin, cutoff) is pushed onto partA and [cutoff, end) onto partB
split(vs, cutoff, pA, pB) ==
    [partA |-> pA \o IndexRun(vs, 1, cutoff),
     partB |-> pB \o IndexRun(vs, cutoff + 1, Len(vs))]

\* ------------------------------------------------------- measureInformationGain
\* partA.size()/parent.size() on unsigned integers, then converted to double
Weight(part, parent) == Len(part) \div Len(parent)

\* the value of ig: a rank, or NotComparable
Scores == {NotComparable} \cup (0 .. MaxScore)

\* ------------------------------------------------------- makeLeaf
LeafWrite(node) == [node |-> node, leaf |-> TRUE]

InternalWrite(node) == [node |-> node, leaf |-> FALSE]

SetRow(node, row) ==
    IF InTable(node) THEN [treetable EXCEPT ![node] = row] ELSE treetable

makeLeaf(node) ==
    /\ treetable' = SetRow(node, [(IF InTable(node) THEN treetable[node] ELSE ZeroRow)
                                      EXCEPT ![1] = numLeaves])
    /\ writes' = writes \cup {LeafWrite(node)}
    /\ numLeaves' = numLeaves + 1

\* ------------------------------------------------------- the call stack
ResetOpt ==
    /\ pc' = "idle" /\ i' = 0 /\ j' = 0 /\ tmpTest' = <<>> /\ valSet' = <<>>
    /\ tmpA' = <<>> /\ tmpB' = <<>> /\ bestSplit' = NegDblMax /\ ret' = FALSE
    /\ tr' = 0 /\ Wl' = 0 /\ Wr' = 0

Return ==
    /\ stack' = SubSeq(stack, 1, Len(stack) - 1)
    /\ status' = IF Len(stack) = 1 THEN "returned" ELSE status

SetTop(f) == stack' = [stack EXCEPT ![Len(stack)] = f]

Running == status = "growing" /\ Len(stack) > 0

\* ------------------------------------------------------- growTree
growTree(patches) ==
    /\ status = "constructed"
    /\ status' = "growing"
    /\ stack' = <<Frame(patches, 0, 0, Len(patches))>>
    /\ UNCHANGED <<cfgVars, tableVars, optVars>>

\* ------------------------------------------------------- grow
\* the condition under which grow makes the node a leaf at once
DepthTest(depth) == depth < maxDepth

\* the size test with the boundary moved: a partition of exactly minSamples recurses
EnoughSamplesAtLeast(part) == Len(part) >= minSamples

EnoughSamples(part) == Len(part) > minSamples

\* entry of grow: the depth test, then the call of optimizeTest
GrowEntry ==
    /\ Running /\ Top.pc = "entry"
    /\ IF DepthTest(Top.depth)
       THEN /\ makeLeaf(Top.node)
            /\ Return
            /\ UNCHANGED <<cfgVars, optVars>>
       ELSE /\ SetTop([Top EXCEPT !.pc = "optimize"])
            /\ pc' = "outer"
            /\ UNCHANGED <<cfgVars, tableVars, status, i, j, tmpTest, valSet,
                           tmpA, tmpB, bestSplit, ret, tr, Wl, Wr>>

\* one pass of the outer loop of optimizeTest up to the threshold loop; tmpTest
\* is local to the loop body
OuterIteration ==
    /\ Running /\ Top.pc = "optimize" /\ pc = "outer"
    /\ i < Top.samples
    /\ \E t \in TestDraws :
        LET vs == evaluateTest(Top.data, t, valSet)
            vmin == vs[1].difference
            vmax == vs[Len(vs)].difference
        IN  /\ Len(vs) <= MaxSetLen
            /\ valSet' = vs
            /\ IF vmax - vmin > 0 /\ N_THRESHOLD_IT > 0
               THEN pc' = "inner" /\ tmpTest' = t /\ i' = i
               ELSE pc' = "outer" /\ tmpTest' = <<>> /\ i' = i + 1
    /\ UNCHANGED <<cfgVars, tableVars, status, stack, j, tmpA, tmpB, bestSplit,
                   ret, tr, Wl, Wr>>

\* what the threshold loop leaves behind after a trial
TrialDone ==
    IF j + 1 < N_THRESHOLD_IT
    THEN j' = j + 1 /\ pc' = pc /\ i' = i /\ tmpTest' = tmpTest
    ELSE j' = 0 /\ pc' = "outer" /\ i' = i + 1 /\ tmpTest' = <<>>

\* one pass of the threshold loop: a threshold is drawn, split fills tmpA and
\* tmpB, and a split with two non-empty sides is scored (the weights of the score
\* are those of MeasureCall; its value is the input score)
ThresholdTrial ==
    /\ Running /\ Top.pc = "optimize" /\ pc = "inner"
    /\ \E t \in valSet[1].difference .. valSet[Len(valSet)].difference - 1 :
       \E cutoff \in Cutoffs(valSet, t) :
        LET parts == split(valSet, cutoff, tmpA, tmpB)
        IN  /\ Len(parts.partA) <= MaxSetLen /\ Len(parts.partB) <= MaxSetLen
            /\ tmpA' = parts.partA
            /\ tmpB' = parts.partB
            /\ IF Len(parts.partA) > 0 /\ Len(parts.partB) > 0
               THEN \E score \in Scores :
                       IF score > bestSplit
                       THEN /\ ret' = TRUE
                            /\ bestSplit' = score
                            /\ SetTop([Top EXCEPT
                                   !.test = [tmpTest EXCEPT ![6] = t],
                                   !.partA = parts.partA,
                                   !.partB = parts.partB])
                       ELSE UNCHANGED <<ret, bestSplit, stack>>
               ELSE UNCHANGED <<ret, bestSplit, stack>>
    /\ TrialDone
    /\ UNCHANGED <<cfgVars, tableVars, status, valSet, tr, Wl, Wr>>

\* optimizeTest returns; grow stores the test (and does not read it again) or
\* falls back to a leaf
OptimizeReturn ==
    /\ Running /\ Top.pc = "optimize" /\ pc = "outer"
    /\ i >= Top.samples
    /\ IF ret
       THEN /\ treetable' = SetRow(Top.node, <<-1>> \o Top.test)
            /\ writes' = writes \cup {InternalWrite(Top.node)}
            /\ SetTop([Top EXCEPT !.pc = "left", !.test = <<>>])
            /\ UNCHANGED <<numLeaves, status>>
       ELSE /\ makeLeaf(Top.node)
            /\ Return
    /\ ResetOpt
    /\ UNCHANGED cfgVars

\* left branch
GrowLeft ==
    /\ Running /\ Top.pc = "left"
    /\ IF EnoughSamples(Top.partA)
       THEN /\ Top.depth + 1 <= MaxRecursion
            /\ stack' = Append([stack EXCEPT ![Len(stack)].pc = "right"],
                               Frame(Patches(Top.data, Top.partA), 2 * Top.node + 1,
                                     Top.depth + 1, Top.samples))
            /\ UNCHANGED tableVars
       ELSE /\ makeLeaf(2 * Top.node + 1)
            /\ SetTop([Top EXCEPT !.pc = "right"])
    /\ UNCHANGED <<cfgVars, status, optVars>>

\* right branch; grow returns after it (data is not read again)
GrowRight ==
    /\ Running /\ Top.pc = "right"
    /\ IF EnoughSamples(Top.partB)
       THEN /\ Top.depth + 1 <= MaxRecursion
            /\ stack' = Append([stack EXCEPT ![Len(stack)] =
                                          [Top EXCEPT !.pc = "ret", !.data = <<>>]],
                               Frame(Patches(Top.data, Top.partB), 2 * Top.node + 2,
                                     Top.depth + 1, Top.samples))
            /\ UNCHANGED <<tableVars, status>>
       ELSE /\ makeLeaf(2 * Top.node + 2)
            /\ Return
    /\ UNCHANGED <<cfgVars, optVars>>

\* grow returns once the right child has returned
GrowReturn ==
    /\ Running /\ Top.pc = "ret"
    /\ Return
    /\ UNCHANGED <<cfgVars, tableVars, optVars>>

\* the writes that landed outside the node table
OutOfTable == {w \in writes : ~InTable(w.node)}

\* a write outside the node table corrupts the heap: the process may go on, or
\* abort when grow next proceeds
Abort ==
    /\ status = "growing" /\ pc = "idle"
    /\ OutOfTable # {}
    /\ status' = "crashed"
    /\ UNCHANGED <<cfgVars, tableVars, stack, optVars>>

Next ==
    \/ \E patches \in TrainingSets : growTree(patches)
    \/ GrowEntry
    \/ OuterIteration
    \/ ThresholdTrial
    \/ OptimizeReturn
    \/ GrowLeft
    \/ GrowRight
    \/ GrowReturn
    \/ Abort

Spec == Init /\ [][Next]_vars

\* ------------------------------------------------------- split, called alone
\* the thresholds a caller may hand to split
Thresholds == (0 - MaxPixel - 1) .. (MaxPixel + 1)

InitSplit ==
    /\ minSamples = 0 /\ maxDepth = 0 /\ numNodes = NumNodes(0)
    /\ treetable = [n \in 0 .. NumNodes(0) - 1 |-> ZeroRow]
    /\ numLeaves = 0 /\ writes = {}
    /\ status = "split"
    /\ \E data \in TrainingSets : stack = <<Frame(data, 0, 0, Len(data))>>
    /\ pc = "call" /\ i = 0 /\ j = 0
    /\ tmpTest \in TestDraws
    /\ valSet = evaluateTest(Top.data, tmpTest, <<>>)
    /\ tmpA = <<>> /\ tmpB = <<>> /\ bestSplit = NegDblMax /\ ret = FALSE
    /\ tr \in Thresholds
    /\ Wl = 0 /\ Wr = 0

SplitCall ==
    /\ status = "split" /\ pc = "call"
    /\ \E cutoff \in Cutoffs(valSet, tr) :
        LET parts == split(valSet, cutoff, tmpA, tmpB)
        IN  tmpA' = parts.partA /\ tmpB' = parts.partB
    /\ pc' = "done"
    /\ UNCHANGED <<cfgVars, tableVars, status, stack, i, j, tmpTest, valSet,
                   bestSplit, ret, tr, Wl, Wr>>

SpecSplit == InitSplit /\ [][SplitCall]_vars

\* ------------------------------------------- measureInformationGain, called alone
InitGain ==
    /\ minSamples = 0 /\ maxDepth = 0 /\ numNodes = NumNodes(0)
    /\ treetable = [n \in 0 .. NumNodes(0) - 1 |-> ZeroRow]
    /\ numLeaves = 0 /\ writes = {}
    /\ status = "gain"
    /\ \E data \in TrainingSets : stack = <<Frame(data, 0, 0, Len(data))>>
    /\ pc = "call" /\ i = 0 /\ j = 0
    /\ tmpTest \in TestDraws
    /\ valSet = evaluateTest(Top.data, tmpTest, <<>>)
    /\ \E cutoff \in 0 .. Len(valSet) :
        /\ tmpA = split(valSet, cutoff, <<>>, <<>>).partA
        /\ tmpB = split(valSet, cutoff, <<>>, <<>>).partB
    /\ bestSplit = NegDblMax /\ ret = FALSE /\ tr = 0
    /\ Wl = 0 /\ Wr = 0

MeasureCall ==
    /\ status = "gain" /\ pc = "call"
    /\ Wl' = Weight(tmpA, Top.data)
    /\ Wr' = Weight(tmpB, Top.data)
    /\ pc' = "done"
    /\ UNCHANGED <<cfgVars, tableVars, status, stack, i, j, tmpTest, valSet,
                   tmpA, tmpB, bestSplit, ret, tr>>

SpecGain == InitGain /\ [][MeasureCall]_vars

\* =================================================================== claims
Count(seq, x) == Cardinality({k \in 1 .. Len(seq) : seq[k] = x})

Range(seq) == {seq[k] : k \in 1 .. Len(seq)}

\* C1: a node grow processes at depth >= maxDepth is made a leaf without split
\* search, and with maxDepth = 0 growTree ends with exactly one leaf: numLeaves
\* is 1, node 0 holds leaf index 0 and no node is marked internal.
C1_DepthLimitStop ==
    /\ (Running /\ Top.pc = "optimize") => Top.depth < maxDepth
    /\ (status = "returned" /\ maxDepth = 0) =>
          /\ numLeaves = 1
          /\ treetable[0][1] = 0
          /\ writes = {LeafWrite(0)}

\* C2: the partA and partB of a split optimizeTest accepted are both non-empty,
\* share no patch position of the parent working set, and together hold the
\* parent working set as a multiset.
C2_AcceptedSplitPartitions ==
    (Running /\ Top.pc = "left") =>
        /\ Top.partA # <<>> /\ Top.partB # <<>>
        /\ Range(Top.partA) \cap Range(Top.partB) = {}
        /\ Len(Top.partA) + Len(Top.partB) = Len(Top.data)
        /\ \A p \in Range(Top.data) :
              Count(Patches(Top.data, Top.partA), p)
                + Count(Patches(Top.data, Top.partB), p) = Count(Top.data, p)

\* C3: split called on a sorted valSet with partA and partB empty puts into partA
\* only patches with difference <= tr and into partB only patches with
\* difference > tr; the cut is the upper bound of tr.
C3_PartitionBoundaryLaw ==
    (status = "split" /\ pc = "done") =>
        /\ \A k \in 1 .. Len(tmpA) : Difference(Top.data[tmpA[k] + 1], tmpTest) <= tr
        /\ \A k \in 1 .. Len(tmpB) : Difference(Top.data[tmpB[k] + 1], tmpTest) > tr
        /\ Len(tmpA) = Cardinality({k \in 1 .. Len(valSet) : valSet[k].difference <= tr})

\* C4: every write grow and makeLeaf make to the node table is at an index i
\* with 0 <= i < numNodes.
C4_WritesInTable == \A w \in writes : InTable(w.node)

\* C5: every invocation of grow has depth <= maxDepth.
C5_DepthBounded == \A k \in 1 .. Len(stack) : stack[k].depth <= maxDepth

\* C6: a node grow processes at depth < maxDepth goes to split search; it is not
\* made a leaf before split search has run.
C6_SearchBelowDepthLimit ==
    [][(Running /\ Top.pc = "entry" /\ Top.depth < maxDepth /\ stack' # stack) =>
          (Len(stack') = Len(stack) /\ stack'[Len(stack')].pc = "optimize")]_vars

\* C7: in every outer iteration of split search the evaluated sequence has one
\* entry per patch position of the working set, holding that patch's difference
\* for the current test, sorted ascending by difference.
C7_EvaluatorComplete ==
    (Running /\ Top.pc = "optimize" /\ pc = "inner") =>
        /\ Len(valSet) = Len(Top.data)
        /\ \A pos \in 0 .. Len(Top.data) - 1 :
              \E k \in 1 .. Len(valSet) :
                  /\ valSet[k].index = pos
                  /\ valSet[k].difference = Difference(Top.data[pos + 1], tmpTest)
        /\ \A k \in 1 .. Len(valSet) - 1 : valSet[k].difference <= valSet[k + 1].difference

\* C8: after an accepted split a child whose partition has at most minSamples
\* patches is made a leaf at 2*node+1 (partA) or 2*node+2 (partB) and grow is not
\* invoked for it; a larger child is passed to grow at depth+1.
C8_Child(part, child) ==
    IF Len(part) <= minSamples
    THEN /\ writes' = writes \cup {LeafWrite(child)}
         /\ numLeaves' = numLeaves + 1
         /\ Len(stack') <= Len(stack)
    ELSE /\ Len(stack') = Len(stack) + 1
         /\ stack'[Len(stack')].pc = "entry"
         /\ stack'[Len(stack')].node = child
         /\ stack'[Len(stack')].depth = Top.depth + 1
         /\ stack'[Len(stack')].data = Patches(Top.data, part)
         /\ writes' = writes /\ numLeaves' = numLeaves

C8_SmallSamplePolicy ==
    [][/\ (Running /\ Top.pc = "left" /\ stack' # stack) =>
              C8_Child(Top.partA, 2 * Top.node + 1)
       /\ (Running /\ Top.pc = "right" /\ stack' # stack) =>
              C8_Child(Top.partB, 2 * Top.node + 2)]_vars

\* reached: the left child of the root was made a leaf and its right child was
\* passed to grow
C8_Witness ==
    /\ status = "growing" /\ Len(stack) = 2
    /\ stack[1].pc = "ret" /\ stack[2].pc = "entry"
    /\ Len(stack[1].partA) <= minSamples /\ Len(stack[1].partB) > minSamples
    /\ LeafWrite(1) \in writes
    /\ stack[2].node = 2

\* C9: when growTree returns, numLeaves is the number of node-table slots marked
\* as leaves and those slots hold the distinct leaf indices 0 .. numLeaves-1.
LeafSlots == {w.node : w \in {x \in writes : x.leaf /\ InTable(x.node)}}

C9_LeafAccounting ==
    status = "returned" =>
        /\ numLeaves = Cardinality(LeafSlots)
        /\ {treetable[n][1] : n \in LeafSlots} = 0 .. numLeaves - 1

\* C10: for non-empty partA and partB that partition parent, the weights are the
\* exact fractions |partA|/|parent| and |partB|/|parent|: each strictly between 0
\* and 1, and they sum to 1.
C10_ExactWeights ==
    (status = "gain" /\ pc = "done" /\ tmpA # <<>> /\ tmpB # <<>>) =>
        /\ Wl * Len(Top.data) = Len(tmpA)
        /\ Wr * Len(Top.data) = Len(tmpB)

====
